---------------------------- MODULE Spec2Model ----------------------------
(***************************************************************************)
(* A model of evohomeasync2's zone layer: _ZoneBase, Zone (zone.py) and    *)
(* HotWater (hotwater.py).  The broker (HTTP transport and schema          *)
(* validation) is the environment: it answers a get or a put with a        *)
(* validated payload or with an exception.  Every await of the broker is a *)
(* suspension point, so a call that reaches the broker is two steps: the   *)
(* call up to the await, and the resumption with the broker's answer.      *)
(***************************************************************************)
EXTENDS Integers, Sequences, FiniteSets, Bags, TLC

VARIABLES
    zones,        \* entity slot -> the constructed object, or NoEntity
    pending,      \* bag of calls suspended on an await of the broker
    brokerCalls,  \* number of broker invocations (get and put) so far
    delivered,    \* entity slot -> the status the broker returned last, if any
    remote,       \* entity slot -> the schedule the remote API holds
    last          \* the call that returned or raised last

vars == <<zones, pending, brokerCalls, delivered, remote, last>>

-----------------------------------------------------------------------------
(* Python values *)

None == "None"

\* A str whose characters matter is a sequence of one-character strings.
LowerChars == <<"a","b","c","d","e","f","g","h","i","j","k","l","m",
                "n","o","p","q","r","s","t","u","v","w","x","y","z">>
UpperChars == <<"A","B","C","D","E","F","G","H","I","J","K","L","M",
                "N","O","P","Q","R","S","T","U","V","W","X","Y","Z">>

IndexIn(chars, c) ==
    IF \E i \in 1..Len(chars) : chars[i] = c
    THEN CHOOSE i \in 1..Len(chars) : chars[i] = c
    ELSE 0

upper(c) == IF IndexIn(LowerChars, c) > 0 THEN UpperChars[IndexIn(LowerChars, c)] ELSE c
lower(c) == IF IndexIn(UpperChars, c) > 0 THEN LowerChars[IndexIn(UpperChars, c)] ELSE c

\* str.capitalize(): the first character upper-cased, all others lower-cased.
capitalize(s) ==
    [i \in 1..Len(s) |-> IF i = 1 THEN upper(s[i]) ELSE lower(s[i])]

StartsWith(s, old) ==
    /\ Len(old) <= Len(s)
    /\ SubSeq(s, 1, Len(old)) = old

\* str.replace(old, new): every non-overlapping occurrence, left to right.
RECURSIVE replace(_, _, _)
replace(s, old, new) ==
    IF Len(s) < Len(old) \/ old = <<>> THEN s
    ELSE IF StartsWith(s, old)
         THEN new \o replace(SubSeq(s, Len(old) + 1, Len(s)), old, new)
         ELSE <<Head(s)>> \o replace(Tail(s), old, new)

-----------------------------------------------------------------------------
(* schema/const.py: the field names of the remote API *)

SZ_DAILY_SCHEDULES == <<"d","a","i","l","y","S","c","h","e","d","u","l","e","s">>
SZ_DAY_OF_WEEK == <<"d","a","y","O","f","W","e","e","k">>
SZ_DHW_STATE == <<"d","h","w","S","t","a","t","e">>
SZ_SWITCHPOINTS == <<"s","w","i","t","c","h","p","o","i","n","t","s">>
SZ_TEMPERATURE == <<"t","e","m","p","e","r","a","t","u","r","e">>
SZ_TIME_OF_DAY == <<"t","i","m","e","O","f","D","a","y">>
SZ_HEAT_SETPOINT == <<"h","e","a","t","S","e","t","p","o","i","n","t">>

CAPITALIZED_KEYS ==
    <<SZ_DAILY_SCHEDULES, SZ_DAY_OF_WEEK, SZ_DHW_STATE,
      SZ_SWITCHPOINTS, SZ_TEMPERATURE, SZ_TIME_OF_DAY>>

-----------------------------------------------------------------------------
(* JSON documents.  An object keeps its members in order, as a dict does. *)

JNull == [t |-> "null"]
JStr(s) == [t |-> "str", s |-> s]
JNum(n) == [t |-> "num", n |-> n]
JList(items) == [t |-> "list", items |-> items]
JObj(members) == [t |-> "obj", members |-> members]

HasKey(members, key) == \E i \in 1..Len(members) : members[i][1] = key

\* d[key]
GetItem(members, key) ==
    members[CHOOSE i \in 1..Len(members) : members[i][1] = key][2]

\* d[key] = value: an existing key keeps its place, a new key goes last.
SetItem(members, key, value) ==
    IF HasKey(members, key)
    THEN [i \in 1..Len(members) |->
            IF members[i][1] = key THEN <<key, value>> ELSE members[i]]
    ELSE Append(members, <<key, value>>)

\* The for loop of get_schedule over CAPITALIZED_KEYS, on one string literal
\* of the serialized text.
RECURSIVE CapitalizeKeys(_, _)
CapitalizeKeys(s, k) ==
    IF k > Len(CAPITALIZED_KEYS) THEN s
    ELSE CapitalizeKeys(
            replace(s, CAPITALIZED_KEYS[k], capitalize(CAPITALIZED_KEYS[k])),
            k + 1)

\* json.loads on an object: a repeated key keeps its first place and its
\* last value.
RECURSIVE LoadMembers(_, _)
LoadMembers(members, acc) ==
    IF members = <<>> THEN acc
    ELSE LoadMembers(Tail(members), SetItem(acc, Head(members)[1], Head(members)[2]))

\* json.loads(replaced(json.dumps(doc))).  The key names are letters only,
\* so a match never spans a quote: the replacement acts inside each string
\* literal of the text, member names and string values alike, and numbers,
\* null and the punctuation pass through dumps and loads as they are.
RECURSIVE RewriteText(_)
RewriteText(doc) ==
    CASE doc.t = "str" -> JStr(CapitalizeKeys(doc.s, 1))
      [] doc.t = "list" ->
            JList([i \in 1..Len(doc.items) |-> RewriteText(doc.items[i])])
      [] doc.t = "obj" ->
            JObj(LoadMembers(
                [i \in 1..Len(doc.members) |->
                    <<CapitalizeKeys(doc.members[i][1], 1),
                      RewriteText(doc.members[i][2])>>],
                <<>>))
      [] OTHER -> doc

\* The loop with enumerate(..., start=1).
AssignOrdinals_from_one(days) ==
    [i \in 1..Len(days) |->
        JObj(SetItem(days[i].members, capitalize(SZ_DAY_OF_WEEK), JNum(i)))]

\* The loop replacing each entry by its ordinal alone.
AssignOrdinals_replacing(days) ==
    [i \in 1..Len(days) |-> JObj(<< <<capitalize(SZ_DAY_OF_WEEK), JNum(i - 1)>> >>)]

\* for day_of_week, setpoints in enumerate(result["Dailyschedules"]):
\*     setpoints["Dayofweek"] = day_of_week
AssignOrdinals(days) ==
    [i \in 1..Len(days) |->
        JObj(SetItem(days[i].members, capitalize(SZ_DAY_OF_WEEK), JNum(i - 1)))]

\* get_schedule after the await: the broker's schedule to the returned dict.
DecodeSchedule(schedule) ==
    LET result == RewriteText(schedule)
        key == capitalize(SZ_DAILY_SCHEDULES)
    IN  JObj(SetItem(result.members, key,
                     JList(AssignOrdinals(GetItem(result.members, key).items))))

-----------------------------------------------------------------------------
(* schema/const.py: names used by zone.py and hotwater.py *)

SZ_TEMPERATURE_ZONE == "temperatureZone"
SZ_DOMESTIC_HOT_WATER == "domesticHotWater"
SZ_ZONE_ID == "zoneId"
SZ_DHW_ID == "dhwId"
SZ_NAME == "name"
SZ_ACTIVE_FAULTS == "activeFaults"
SZ_TEMPERATURE_STATUS == "temperatureStatus"
SZ_SETPOINT_STATUS == "setpointStatus"
SZ_STATE_STATUS == "stateStatus"

-----------------------------------------------------------------------------
(* Bounds and input domains *)

\* The broker is invoked at most MaxCalls times in a run.
MaxCalls == 3
\* A call of a deprecated method passes at most MaxArgs arguments.
MaxArgs == 1

\* The slots the parent control system fills: a heating zone and the DHW.
Entities == {"zone", "dhw"}
ClassOf(e) == IF e = "dhw" THEN "HotWater" ELSE "Zone"
NoEntity == [cls |-> "NoEntity"]

\* A dict with string keys is a function; d.get(k) and d[k] follow.
EmptyDict == [k \in {} |-> None]
DictGet(d, k) == IF k \in DOMAIN d THEN d[k] ELSE None

IdKey(cls) == IF cls = "Zone" THEN SZ_ZONE_ID ELSE SZ_DHW_ID
TypeOf(cls) == IF cls = "Zone" THEN SZ_TEMPERATURE_ZONE ELSE SZ_DOMESTIC_HOT_WATER

\* Config payloads the parent may hand to a constructor: with the
\* identifier, with an empty one, and without it.
ConfigPayloads(cls) ==
    { (IdKey(cls) :> "3432521") @@ (SZ_NAME :> "Kitchen"),
      (IdKey(cls) :> "") @@ (SZ_NAME :> "Kitchen"),
      (SZ_NAME :> "Kitchen") }

\* Status payloads the broker may return for a class: nothing, one field
\* or every field of the class's status, holding one of StatusValues.
StatusValues == {"s1", "s2"}
StatusFields(cls) ==
    IF cls = "Zone"
    THEN {SZ_ACTIVE_FAULTS, SZ_TEMPERATURE_STATUS, SZ_SETPOINT_STATUS}
    ELSE {SZ_ACTIVE_FAULTS, SZ_TEMPERATURE_STATUS, SZ_STATE_STATUS}
StatusPayloads(cls) ==
    UNION { [D -> {v}] : D \in {{}, {SZ_TEMPERATURE_STATUS}, StatusFields(cls)},
                         v \in StatusValues }

\* What an awaited broker call raises (exceptions.py).
FailedRequest == "FailedRequest"
InvalidSchema == "InvalidSchema"
InvalidSchedule == "InvalidSchedule"

Ok(value) == [err |-> None, value |-> value]
Raise(err) == [err |-> err, value |-> None]

-----------------------------------------------------------------------------
(* zone.py, hotwater.py: the objects *)

\* truth value of an identifier in `assert self.zoneId`
Truthy(v) == v \notin {"", None}

\* __init__ with the assert left out.
init_without_assert(cls, config) ==
    IF IdKey(cls) \notin DOMAIN config THEN Raise("KeyError")
    ELSE Ok([cls |-> cls,
             _config |-> config,
             _id |-> config[IdKey(cls)],
             _type |-> TypeOf(cls),
             _status |-> EmptyDict])

\* Zone.__init__ / HotWater.__init__: the object, or the exception raised.
\* self.zoneId reads self._config[SZ_ZONE_ID], a KeyError when missing.
__init__(cls, config) ==
    IF IdKey(cls) \notin DOMAIN config THEN Raise("KeyError")
    ELSE IF ~Truthy(config[IdKey(cls)]) THEN Raise("AssertionError")
    ELSE Ok([cls |-> cls,
             _config |-> config,
             _id |-> config[IdKey(cls)],
             _type |-> TypeOf(cls),
             _status |-> EmptyDict])

\* _update_status that updates the dict in place (self._status.update).
update_status_in_place(self, status) ==
    [self EXCEPT !._status =
        [k \in DOMAIN status \cup DOMAIN self._status |->
            IF k \in DOMAIN status THEN status[k] ELSE self._status[k]]]

\* _ZoneBase._update_status
_update_status(self, status) == [self EXCEPT !._status = status]

\* _refresh_status that empties the cache when the broker raises.
refresh_status_clearing(self, response) ==
    IF response.err # None
    THEN [self |-> [self EXCEPT !._status = EmptyDict],
          err |-> response.err, ret |-> None]
    ELSE [self |-> [self EXCEPT !._status = response.value],
          err |-> None, ret |-> response.value]

\* _ZoneBase._refresh_status after the await: the broker's answer is a
\* validated status or an exception, which propagates.
_refresh_status(self, response) ==
    IF response.err # None
    THEN [self |-> self, err |-> response.err, ret |-> None]
    ELSE [self |-> _update_status(self, response.value),
          err |-> None, ret |-> response.value]

\* The status properties: activeFaults, temperatureStatus (zone.py),
\* setpointStatus (Zone), stateStatus (HotWater).
StatusAttr(self, attr) == DictGet(self._status, attr)

activeFaults(self) == StatusAttr(self, SZ_ACTIVE_FAULTS)
temperatureStatus(self) == StatusAttr(self, SZ_TEMPERATURE_STATUS)
setpointStatus(self) == StatusAttr(self, SZ_SETPOINT_STATUS)
\* stateStatus reading the key of another property.
stateStatus_other_key(self) == StatusAttr(self, SZ_TEMPERATURE_STATUS)
stateStatus(self) == StatusAttr(self, SZ_STATE_STATUS)

\* The status property of a class by its name.
Accessor(self, attr) ==
    CASE attr = SZ_ACTIVE_FAULTS -> activeFaults(self)
      [] attr = SZ_TEMPERATURE_STATUS -> temperatureStatus(self)
      [] attr = SZ_SETPOINT_STATUS -> setpointStatus(self)
      [] attr = SZ_STATE_STATUS -> stateStatus(self)

\* Zone.zoneId / HotWater.dhwId
ConfigId(self) == self._config[IdKey(self.cls)]

\* The deprecated names of each class (by the method resolution order,
\* HotWater has those of HotWaterDeprecated and of _ZoneBaseDeprecated).
DeprecatedProperties(cls) ==
    IF cls = "HotWater" THEN {"zone_type", "zoneId"} ELSE {"zone_type"}
DeprecatedMethods(cls) ==
    IF cls = "HotWater"
    THEN {"schedule", "get_dhw_state", "set_dhw_on", "set_dhw_off", "set_dhw_auto"}
    ELSE {"schedule"}

\* A deprecated property read, or a deprecated method awaited with nargs
\* arguments.  schedule(self) declares no parameter beyond self, so binding
\* an argument fails before its body runs; the HotWater methods take
\* *args, **kwargs.
Deprecated(name, nargs) ==
    IF name = "schedule" /\ nargs > 0 THEN "TypeError"
    ELSE "NotImplementedError"

-----------------------------------------------------------------------------
(* json.loads on a text, given as its tokens *)

Punct(c) == [t |-> "punct", c |-> c]
BadToken == [t |-> "bad"]
IsPunct(toks, i, c) == i <= Len(toks) /\ toks[i] = Punct(c)

ParseFail == [ok |-> FALSE, value |-> JNull, next |-> 0]
Parsed(value, next) == [ok |-> TRUE, value |-> value, next |-> next]

RECURSIVE ParseValue(_, _)
RECURSIVE ParseItems(_, _, _)
RECURSIVE ParseMembers(_, _, _)

\* value := string | number | null | '[' items ']' | '{' members '}'
ParseValue(toks, i) ==
    IF i > Len(toks) THEN ParseFail
    ELSE IF toks[i].t \in {"str", "num", "null"} THEN Parsed(toks[i], i + 1)
    ELSE IF IsPunct(toks, i, "[")
         THEN IF IsPunct(toks, i + 1, "]") THEN Parsed(JList(<<>>), i + 2)
              ELSE ParseItems(toks, i + 1, <<>>)
    ELSE IF IsPunct(toks, i, "{")
         THEN IF IsPunct(toks, i + 1, "}") THEN Parsed(JObj(<<>>), i + 2)
              ELSE ParseMembers(toks, i + 1, <<>>)
    ELSE ParseFail

ParseItems(toks, i, acc) ==
    LET v == ParseValue(toks, i) IN
    IF ~v.ok THEN ParseFail
    ELSE IF IsPunct(toks, v.next, ",")
         THEN ParseItems(toks, v.next + 1, Append(acc, v.value))
    ELSE IF IsPunct(toks, v.next, "]")
         THEN Parsed(JList(Append(acc, v.value)), v.next + 1)
    ELSE ParseFail

ParseMembers(toks, i, acc) ==
    IF ~(i <= Len(toks) /\ toks[i].t = "str" /\ IsPunct(toks, i + 1, ":"))
    THEN ParseFail
    ELSE LET v == ParseValue(toks, i + 2) IN
         IF ~v.ok THEN ParseFail
         ELSE IF IsPunct(toks, v.next, ",")
              THEN ParseMembers(toks, v.next + 1, Append(acc, <<toks[i].s, v.value>>))
         ELSE IF IsPunct(toks, v.next, "}")
              THEN Parsed(JObj(LoadMembers(Append(acc, <<toks[i].s, v.value>>), <<>>)),
                          v.next + 1)
         ELSE ParseFail

\* json.loads(text): the value, or JSONDecodeError (also for extra data).
JsonLoads(toks) ==
    LET v == ParseValue(toks, 1) IN
    IF v.ok /\ v.next = Len(toks) + 1 THEN Ok(v.value) ELSE Raise("JSONDecodeError")

-----------------------------------------------------------------------------
(* json.dumps on a Python object *)

\* A Python object is a JSON document that may also hold a value of a type
\* json does not encode (a set) or a container that holds itself.
PySet == [t |-> "set"]
PyCycle == [t |-> "cycle"]
PyText(toks) == [t |-> "text", toks |-> toks]

RECURSIVE FirstError(_, _)
RECURSIVE DumpsError(_)

FirstError(values, i) ==
    IF i > Len(values) THEN None
    ELSE IF DumpsError(values[i]) # None THEN DumpsError(values[i])
    ELSE FirstError(values, i + 1)

\* What json.dumps(obj) raises: TypeError for a type it does not encode,
\* ValueError for a circular reference, else nothing.
DumpsError(obj) ==
    CASE obj.t = "set" -> "TypeError"
      [] obj.t = "cycle" -> "ValueError"
      [] obj.t = "list" -> FirstError(obj.items, 1)
      [] obj.t = "obj" ->
            FirstError([i \in 1..Len(obj.members) |-> obj.members[i][2]], 1)
      [] OTHER -> None

-----------------------------------------------------------------------------
(* datetime.strftime(API_STRFTIME) *)

Digits == <<"0","1","2","3","4","5","6","7","8","9">>

\* %Y, %m, %d, %H, %M, %S: a zero-padded decimal of the given width
RECURSIVE Pad(_, _)
Pad(n, width) ==
    IF width = 0 THEN <<>>
    ELSE Pad(n \div 10, width - 1) \o <<Digits[(n % 10) + 1]>>

NoneDt == [t |-> "None"]
Datetime(year, month, day, hour, minute, second) ==
    [t |-> "datetime", year |-> year, month |-> month, day |-> day,
     hour |-> hour, minute |-> minute, second |-> second]

\* API_STRFTIME = "%Y-%m-%dT%H:%M:%SZ"
strftime(until) ==
    Pad(until.year, 4) \o <<"-">> \o Pad(until.month, 2) \o <<"-">>
        \o Pad(until.day, 2) \o <<"T">> \o Pad(until.hour, 2) \o <<":">>
        \o Pad(until.minute, 2) \o <<":">> \o Pad(until.second, 2) \o <<"Z">>

-----------------------------------------------------------------------------
(* The broker's requests *)

Path(self, segment) == <<self._type, self._id, segment>>
Request(method, path, json) == [method |-> method, path |-> path, json |-> json]
Task(op, e, arg, request) == [op |-> op, e |-> e, arg |-> arg, request |-> request]

\* The record of a call that returned or raised: its argument (for a call
\* resumed by the broker, the broker's answer), the exception, the value,
\* the broker invocations it made, and a bit that flips at every record.
Returned(op, e, arg, err, ret, calls) ==
    [op |-> op, e |-> e, arg |-> arg, err |-> err, ret |-> ret, calls |-> calls,
     tick |-> 0]

\* What the broker's test double keeps of its answers to status requests.
NotDelivered == [any |-> FALSE, status |-> EmptyDict]
Delivered(status) == [any |-> TRUE, status |-> status]

Suspended == BagToSet(pending)
Suspend(task) == pending (+) SetToBag({task})
Resume(task) == pending (-) SetToBag({task})

-----------------------------------------------------------------------------
(* zone.py: schedules *)

\* A call up to its first await: it raises, or it awaits one broker request.
Raises(err) == [err |-> err, requests |-> <<>>]
Awaits(request) == [err |-> None, requests |-> <<request>>]

\* _ZoneBase.get_schedule up to the await
get_schedule_request(self) == Request("get", Path(self, "schedule"), JNull)

\* _ZoneBase.get_schedule after the await
get_schedule(self, response) ==
    IF response.err # None
    THEN [err |-> response.err, ret |-> None]
    ELSE [err |-> None, ret |-> DecodeSchedule(response.value)]

\* set_schedule without the json.dumps check of a dict.
set_schedule_unchecked_dict(self, schedule) ==
    IF schedule.t = "obj"
    THEN Awaits(Request("put", Path(self, "schedule"), schedule))
    ELSE IF schedule.t = "text"
    THEN IF JsonLoads(schedule.toks).err = "JSONDecodeError"
         THEN Raises(InvalidSchedule)
         ELSE Awaits(Request("put", Path(self, "schedule"),
                             JsonLoads(schedule.toks).value))
    ELSE Raises(InvalidSchedule)

\* _ZoneBase.set_schedule up to the await
set_schedule(self, schedule) ==
    IF schedule.t = "obj"
    THEN IF DumpsError(schedule) \in {"OverflowError", "TypeError", "ValueError"}
         THEN Raises(InvalidSchedule)
         ELSE Awaits(Request("put", Path(self, "schedule"), schedule))
    ELSE IF schedule.t = "text"
    THEN IF JsonLoads(schedule.toks).err = "JSONDecodeError"
         THEN Raises(InvalidSchedule)
         ELSE Awaits(Request("put", Path(self, "schedule"),
                             JsonLoads(schedule.toks).value))
    ELSE Raises(InvalidSchedule)

-----------------------------------------------------------------------------
(* hotwater.py and zone.py: the mode commands *)

SZ_SETPOINT_MODE == "setpointMode"
SZ_HEAT_SETPOINT_VALUE == "heatSetpointValue"
SZ_TIME_UNTIL == "timeUntil"
SZ_PERMANENT_OVERRIDE == "PermanentOverride"
SZ_TEMPORARY_OVERRIDE == "TemporaryOverride"
SZ_FOLLOW_SCHEDULE == "FollowSchedule"

\* HotWater._set_mode
HotWater_set_mode(self, state) == Request("put", Path(self, "state"), state)

\* HotWater.set_on
set_on(self, until) ==
    HotWater_set_mode(self,
        IF until = NoneDt
        THEN [Mode |-> "PermanentOverride", State |-> "On", UntilTime |-> JNull]
        ELSE [Mode |-> "TemporaryOverride", State |-> "On",
              UntilTime |-> JStr(strftime(until))])

\* set_off with the timed branch copied from set_on.
set_off_copied(self, until) ==
    HotWater_set_mode(self,
        IF until = NoneDt
        THEN [Mode |-> "PermanentOverride", State |-> "Off", UntilTime |-> JNull]
        ELSE [Mode |-> "TemporaryOverride", State |-> "On",
              UntilTime |-> JStr(strftime(until))])

\* HotWater.set_off
set_off(self, until) ==
    HotWater_set_mode(self,
        IF until = NoneDt
        THEN [Mode |-> "PermanentOverride", State |-> "Off", UntilTime |-> JNull]
        ELSE [Mode |-> "TemporaryOverride", State |-> "Off",
              UntilTime |-> JStr(strftime(until))])

\* HotWater.set_auto
set_auto(self) ==
    HotWater_set_mode(self,
        [Mode |-> "FollowSchedule", State |-> "", UntilTime |-> JNull])

\* Zone._set_mode
Zone_set_mode(self, heat_setpoint) ==
    Request("put", Path(self, "heatSetpoint"), heat_setpoint)

\* Zone.set_temperature
set_temperature(self, temperature, until) ==
    Zone_set_mode(self,
        IF until = NoneDt
        THEN (SZ_SETPOINT_MODE :> SZ_PERMANENT_OVERRIDE)
                @@ (SZ_HEAT_SETPOINT_VALUE :> temperature)
                @@ (SZ_TIME_UNTIL :> JNull)
        ELSE (SZ_SETPOINT_MODE :> SZ_TEMPORARY_OVERRIDE)
                @@ (SZ_HEAT_SETPOINT_VALUE :> temperature)
                @@ (SZ_TIME_UNTIL :> JStr(strftime(until))))

\* Zone.cancel_temp_override
cancel_temp_override(self) ==
    Zone_set_mode(self,
        (SZ_SETPOINT_MODE :> SZ_FOLLOW_SCHEDULE)
            @@ (SZ_HEAT_SETPOINT_VALUE :> 0)
            @@ (SZ_TIME_UNTIL :> JNull))

-----------------------------------------------------------------------------
(* Input domains of the schedule and mode operations *)

\* The `until` arguments: absent, or one of two datetimes.
Datetimes == {Datetime(2023, 11, 30, 22, 10, 0), Datetime(2024, 1, 5, 7, 5, 9)}
Untils == {NoneDt} \cup Datetimes
\* The temperatures, in tenths of a degree (21.5 and 5.0).
Temperatures == {215, 50}

Monday == <<"M","o","n","d","a","y">>
Sunday == <<"S","u","n","d","a","y">>
Time0600 == <<"0","6",":","0","0",":","0","0">>
Time2230 == <<"2","2",":","3","0",":","0","0">>
On == <<"O","n">>
Off == <<"O","f","f">>

\* A switchpoint, a daily schedule and a schedule as the remote API gives
\* them (the shape SCH_SCHEDULE accepts).
ZoneSwitchpoint(time, setpoint) ==
    JObj(<< <<SZ_HEAT_SETPOINT, JNum(setpoint)>>, <<SZ_TIME_OF_DAY, JStr(time)>> >>)
DhwSwitchpoint(time, state) ==
    JObj(<< <<SZ_DHW_STATE, JStr(state)>>, <<SZ_TIME_OF_DAY, JStr(time)>> >>)
DailySchedule(name, switchpoints) ==
    JObj(<< <<SZ_DAY_OF_WEEK, JStr(name)>>, <<SZ_SWITCHPOINTS, JList(switchpoints)>> >>)
Schedule(days) == JObj(<< <<SZ_DAILY_SCHEDULES, JList(days)>> >>)

\* The remote API lists one daily schedule per day of the week.
DaysPerWeek == 7

\* The daily schedules a remote schedule of a class is made of.
DayPool(cls) ==
    IF cls = "Zone"
    THEN { DailySchedule(Monday, << ZoneSwitchpoint(Time0600, 215),
                                    ZoneSwitchpoint(Time2230, 160) >>),
           DailySchedule(Sunday, << >>) }
    ELSE { DailySchedule(Monday, << DhwSwitchpoint(Time0600, On),
                                    DhwSwitchpoint(Time2230, Off) >>),
           DailySchedule(Sunday, << DhwSwitchpoint(Time2230, On) >>) }

RemoteSchedules(cls) ==
    { Schedule(days) : days \in [1..DaysPerWeek -> DayPool(cls)] }

\* The schedule the remote API holds in the runs that do not vary it.
DefaultSchedule(cls) ==
    Schedule([i \in 1..DaysPerWeek |->
        IF cls = "Zone"
        THEN DailySchedule(IF i = 1 THEN Monday ELSE Sunday,
                           IF i = 1 THEN << ZoneSwitchpoint(Time0600, 215) >> ELSE << >>)
        ELSE DailySchedule(IF i = 1 THEN Monday ELSE Sunday,
                           IF i = 1 THEN << DhwSwitchpoint(Time0600, On) >> ELSE << >>)])

DailySchedulesKey == JStr(capitalize(SZ_DAILY_SCHEDULES))

\* Texts handed to set_schedule, as tokens:  {"Dailyschedules": []}  [],
\* and the malformed  {"Dailyschedules": [}  {"Dailyschedules" []}  {} {}
\* an empty text and a text with a character no JSON value starts with.
ValidTexts ==
    { PyText(<<Punct("{"), DailySchedulesKey, Punct(":"), Punct("["), Punct("]"),
               Punct("}")>>),
      PyText(<<Punct("["), Punct("]")>>) }
InvalidTexts ==
    { PyText(<<Punct("{"), DailySchedulesKey, Punct(":"), Punct("["), Punct("}")>>),
      PyText(<<Punct("{"), DailySchedulesKey, Punct("["), Punct("]"), Punct("}")>>),
      PyText(<<Punct("{"), Punct("}"), Punct("{"), Punct("}")>>),
      PyText(<<>>),
      PyText(<<BadToken>>) }

\* Dicts handed to set_schedule: a schedule, one holding a set, one holding
\* itself.
ValidDicts == { JObj(<< <<DailySchedulesKey.s, JList(<<>>)>> >>) }
UnserializableDicts ==
    { JObj(<< <<DailySchedulesKey.s, JList(<<PySet>>)>> >>),
      JObj(<< <<DailySchedulesKey.s, PyCycle>> >>) }

\* Values that are neither a dict nor a str: a list, None, a number, and a
\* list that holds itself.
OtherValues == { JList(<<>>), JNull, JNum(5), JList(<<PyCycle>>) }

ScheduleArgs ==
    ValidTexts \cup InvalidTexts \cup ValidDicts \cup UnserializableDicts
        \cup OtherValues

-----------------------------------------------------------------------------
(* The state machine *)

\* The program starts with no object constructed and no call made.
Init ==
    /\ zones = [e \in Entities |-> NoEntity]
    /\ pending = EmptyBag
    /\ brokerCalls = 0
    /\ delivered = [e \in Entities |-> NotDelivered]
    /\ remote = [e \in Entities |-> DefaultSchedule(ClassOf(e))]
    /\ last = Returned("none", "none", None, None, None, 0)

\* A call returned or raised: a run that observes its calls (obs) records
\* the outcome, a run that does not leaves the record alone.
Seen(obs, call) ==
    last' = IF obs THEN [call EXCEPT !.tick = 1 - last.tick] ELSE last

\* The parent constructs the object of a slot from a config payload.
Construct(e, config, obs) ==
    LET r == __init__(ClassOf(e), config) IN
    /\ zones[e] = NoEntity
    /\ zones' = IF r.err = None THEN [zones EXCEPT ![e] = r.value] ELSE zones
    /\ Seen(obs, Returned("__init__", e, config, r.err, None, 0))
    /\ UNCHANGED <<pending, brokerCalls, delivered, remote>>

\* _refresh_status up to `await self._broker.get(...)`.
RefreshCall(e) ==
    /\ zones[e] # NoEntity
    /\ brokerCalls < MaxCalls
    /\ pending' = Suspend(Task("_refresh_status", e, None,
                               Request("get", Path(zones[e], "status"), JNull)))
    /\ brokerCalls' = brokerCalls + 1
    /\ UNCHANGED <<zones, delivered, remote, last>>

\* The broker answers a suspended _refresh_status: a validated status of
\* the class, or an exception.
RefreshReturn(task, response, obs) ==
    LET r == _refresh_status(zones[task.e], response) IN
    /\ task \in Suspended
    /\ task.op = "_refresh_status"
    /\ pending' = Resume(task)
    /\ zones' = [zones EXCEPT ![task.e] = r.self]
    /\ delivered' = IF response.err = None
                    THEN [delivered EXCEPT ![task.e] = Delivered(response.value)]
                    ELSE delivered
    /\ Seen(obs, Returned(task.op, task.e, response, r.err, r.ret, 1))
    /\ UNCHANGED <<brokerCalls, remote>>

\* A status property or the identifier property is read.
ReadAttr(e, attr, obs) ==
    /\ zones[e] # NoEntity
    /\ Seen(obs, Returned(attr, e, None, None,
                          IF attr = IdKey(ClassOf(e)) THEN ConfigId(zones[e])
                          ELSE Accessor(zones[e], attr), 0))
    /\ UNCHANGED <<zones, pending, brokerCalls, delivered, remote>>

\* A deprecated property is read or a deprecated method awaited.
CallDeprecated(e, name, nargs, obs) ==
    /\ zones[e] # NoEntity
    /\ Seen(obs, Returned(name, e, nargs, Deprecated(name, nargs), None, 0))
    /\ UNCHANGED <<zones, pending, brokerCalls, delivered, remote>>

\* get_schedule up to `await self._broker.get(...)`.
GetScheduleCall(e) ==
    /\ zones[e] # NoEntity
    /\ brokerCalls < MaxCalls
    /\ pending' = Suspend(Task("get_schedule", e, None, get_schedule_request(zones[e])))
    /\ brokerCalls' = brokerCalls + 1
    /\ UNCHANGED <<zones, delivered, remote, last>>

\* get_schedule keeping the broker's answer as the object's status.
GetScheduleReturn_caching(task, response, obs) ==
    LET r == get_schedule(zones[task.e], response) IN
    /\ task \in Suspended
    /\ task.op = "get_schedule"
    /\ pending' = Resume(task)
    /\ zones' = IF response.err = None
                THEN [zones EXCEPT ![task.e] = _update_status(@, r.ret)]
                ELSE zones
    /\ Seen(obs, Returned(task.op, task.e, response, r.err, r.ret, 1))
    /\ UNCHANGED <<brokerCalls, delivered, remote>>

\* The broker answers a suspended get_schedule: the remote schedule,
\* validated, or an exception.
GetScheduleReturn(task, response, obs) ==
    LET r == get_schedule(zones[task.e], response) IN
    /\ task \in Suspended
    /\ task.op = "get_schedule"
    /\ pending' = Resume(task)
    /\ Seen(obs, Returned(task.op, task.e, response, r.err, r.ret, 1))
    /\ UNCHANGED <<zones, brokerCalls, delivered, remote>>

\* A call that raises before any await, or awaits the put request it built:
\* every request it made has reached the broker.
PutCall(op, e, arg, r, obs) ==
    /\ zones[e] # NoEntity
    /\ brokerCalls + Len(r.requests) <= MaxCalls
    /\ brokerCalls' = brokerCalls + Len(r.requests)
    /\ IF r.err # None
       THEN /\ Seen(obs, Returned(op, e, arg, r.err, None, Len(r.requests)))
            /\ UNCHANGED pending
       ELSE /\ pending' = Suspend(Task(op, e, arg, r.requests[1]))
            /\ UNCHANGED last
    /\ UNCHANGED <<zones, delivered, remote>>

SetScheduleCall(e, schedule, obs) ==
    /\ zones[e] # NoEntity
    /\ PutCall("set_schedule", e, schedule, set_schedule(zones[e], schedule), obs)

SetOn(e, until, obs) ==
    /\ zones[e] # NoEntity
    /\ PutCall("set_on", e, until, Awaits(set_on(zones[e], until)), obs)

SetOff(e, until, obs) ==
    /\ zones[e] # NoEntity
    /\ PutCall("set_off", e, until, Awaits(set_off(zones[e], until)), obs)

SetAuto(e, obs) ==
    /\ zones[e] # NoEntity
    /\ PutCall("set_auto", e, NoneDt, Awaits(set_auto(zones[e])), obs)

SetTemperature(e, temperature, until, obs) ==
    /\ zones[e] # NoEntity
    /\ PutCall("set_temperature", e, <<temperature, until>>,
               Awaits(set_temperature(zones[e], temperature, until)), obs)

CancelTempOverride(e, obs) ==
    /\ zones[e] # NoEntity
    /\ PutCall("cancel_temp_override", e, NoneDt,
               Awaits(cancel_temp_override(zones[e])), obs)

\* The broker answers a suspended put: the result is dropped, an exception
\* propagates.
PutReturn(task, err, obs) ==
    /\ task \in Suspended
    /\ task.request.method = "put"
    /\ pending' = Resume(task)
    /\ Seen(obs, Returned(task.op, task.e, task.arg, err, None, 1))
    /\ UNCHANGED <<zones, brokerCalls, delivered, remote>>

HotWaters == {e \in Entities : ClassOf(e) = "HotWater"}
Zones == {e \in Entities : ClassOf(e) = "Zone"}

\* What a put of an operation may raise (zone.py, the comments at the puts).
PutErrors(op) ==
    IF op = "set_schedule" THEN {InvalidSchedule, FailedRequest} ELSE {FailedRequest}

-----------------------------------------------------------------------------
(* The operations, by group *)

Lifecycle(obs) ==
    \E e \in Entities : \E config \in ConfigPayloads(ClassOf(e)) :
        Construct(e, config, obs)

StatusOps(obs) ==
    \/ \E e \in Entities : RefreshCall(e)
    \/ \E task \in Suspended : \E status \in StatusPayloads(ClassOf(task.e)) :
            RefreshReturn(task, Ok(status), obs)
    \/ \E task \in Suspended : \E err \in {FailedRequest, InvalidSchema} :
            RefreshReturn(task, Raise(err), obs)
    \/ \E e \in Entities :
            \E attr \in StatusFields(ClassOf(e)) \cup {IdKey(ClassOf(e))} :
                ReadAttr(e, attr, obs)

DeprecatedOps(obs) ==
    \/ \E e \in Entities : \E name \in DeprecatedProperties(ClassOf(e)) :
            CallDeprecated(e, name, 0, obs)
    \/ \E e \in Entities : \E name \in DeprecatedMethods(ClassOf(e)) :
            \E nargs \in 0..MaxArgs : CallDeprecated(e, name, nargs, obs)

GetScheduleOps(obs) ==
    \/ \E e \in Entities : GetScheduleCall(e)
    \/ \E task \in Suspended : GetScheduleReturn(task, Ok(remote[task.e]), obs)
    \/ \E task \in Suspended : \E err \in {FailedRequest, InvalidSchema} :
            GetScheduleReturn(task, Raise(err), obs)

SetScheduleOps(obs) ==
    \E e \in Entities : \E schedule \in ScheduleArgs : SetScheduleCall(e, schedule, obs)

ModeOps(obs) ==
    \/ \E e \in HotWaters : \E until \in Untils : SetOn(e, until, obs)
    \/ \E e \in HotWaters : \E until \in Untils : SetOff(e, until, obs)
    \/ \E e \in HotWaters : SetAuto(e, obs)
    \/ \E e \in Zones : \E temperature \in Temperatures : \E until \in Untils :
            SetTemperature(e, temperature, until, obs)
    \/ \E e \in Zones : CancelTempOverride(e, obs)

PutReturns(obs) ==
    \/ \E task \in Suspended : PutReturn(task, None, obs)
    \/ \E task \in Suspended : \E err \in PutErrors(task.op) : PutReturn(task, err, obs)

-----------------------------------------------------------------------------
(* The specifications *)

\* Every operation, in any interleaving.
Next ==
    \/ Lifecycle(FALSE)
    \/ StatusOps(FALSE)
    \/ DeprecatedOps(FALSE)
    \/ GetScheduleOps(FALSE)
    \/ SetScheduleOps(FALSE)
    \/ ModeOps(FALSE)
    \/ PutReturns(FALSE)

Spec == Init /\ [][Next]_vars

\* A client of the status operations and the deprecated names, observed.
NextStatus ==
    \/ Lifecycle(TRUE)
    \/ StatusOps(TRUE)
    \/ DeprecatedOps(TRUE)

SpecStatus == Init /\ [][NextStatus]_vars

\* A client of the schedule operations, observed.
NextSchedule ==
    \/ Lifecycle(TRUE)
    \/ GetScheduleOps(TRUE)
    \/ SetScheduleOps(TRUE)
    \/ PutReturns(TRUE)

SpecSchedule == Init /\ [][NextSchedule]_vars

\* A client of the mode commands, observed.
NextMode ==
    \/ Lifecycle(TRUE)
    \/ ModeOps(TRUE)
    \/ PutReturns(TRUE)

SpecMode == Init /\ [][NextMode]_vars

\* The schedule codec on every remote schedule: both objects constructed,
\* the remote API holding any schedule of the class for one of them.
Constructed(e) == __init__(ClassOf(e), (IdKey(ClassOf(e)) :> "3432521") @@ (SZ_NAME :> "Kitchen")).value

InitCodec ==
    /\ zones = [e \in Entities |-> Constructed(e)]
    /\ pending = EmptyBag
    /\ brokerCalls = 0
    /\ delivered = [e \in Entities |-> NotDelivered]
    /\ \E e \in Entities : \E schedule \in RemoteSchedules(ClassOf(e)) :
            remote = [x \in Entities |->
                        IF x = e THEN schedule ELSE DefaultSchedule(ClassOf(x))]
    /\ last = Returned("none", "none", None, None, None, 0)

NextCodec == GetScheduleOps(TRUE)

SpecCodec == InitCodec /\ [][NextCodec]_vars

-----------------------------------------------------------------------------
(* Properties *)

RefreshRaised(call) == call.op = "_refresh_status" /\ call.arg.err # None
RefreshReturned(call) == call.op = "_refresh_status" /\ call.arg.err = None

C2_Surfaces ==
    RefreshRaised(last) => last.err = last.arg.err /\ last.ret = None

\* A call returns or raises in this step.
ReturnsNow == last'.tick # last.tick

C2_Step ==
    /\ (ReturnsNow /\ RefreshRaised(last')) => zones' = zones
    /\ \A e \in Entities :
        (zones[e] # NoEntity /\ zones'[e] # zones[e]) =>
            /\ RefreshReturned(last')
            /\ last'.e = e
            /\ last'.arg.value \in StatusPayloads(ClassOf(e))
            /\ zones'[e]._status = last'.arg.value

\* C2: when the broker's get raises FailedRequest or InvalidSchema during a
\* refresh, the caller gets that exception and the step leaves every
\* object's cache as it was; a cache changes only in the step in which the
\* broker returns a validated status, and becomes that status.
C2_FailedRefreshKeepsCache == [] C2_Surfaces /\ [][C2_Step]_vars

\* A refresh raised while the cache held a status of an earlier refresh.
C2_Witness ==
    /\ RefreshRaised(last)
    /\ last.err = InvalidSchema
    /\ zones[last.e]._status # EmptyDict

\* C3: after a refresh that returned status S every status property of the
\* object gives S's value of its field, None for a field S omits; a status
\* property read gives the field of the status the broker returned last;
\* before the first refresh every status property gives None.
C3_AccessorsGiveLatestStatus ==
    /\ RefreshReturned(last) =>
        \A attr \in StatusFields(ClassOf(last.e)) :
            Accessor(zones[last.e], attr) = DictGet(last.arg.value, attr)
    /\ (last.e \in Entities /\ last.op \in StatusFields(ClassOf(last.e))) =>
        last.ret = DictGet(delivered[last.e].status, last.op)
    /\ \A e \in Entities :
        (zones[e] # NoEntity /\ ~delivered[e].any) =>
            \A attr \in StatusFields(ClassOf(e)) : Accessor(zones[e], attr) = None

\* stateStatus was read as None after the second of two refreshes returned
\* a status without it.
C3_Witness ==
    /\ last.op = SZ_STATE_STATUS
    /\ last.ret = None
    /\ delivered[last.e].any
    /\ SZ_TEMPERATURE_STATUS \in DOMAIN delivered[last.e].status
    /\ brokerCalls = 2
    /\ pending = EmptyBag

IsDeprecatedCall(call) ==
    /\ call.e \in Entities
    /\ call.op \in DeprecatedProperties(ClassOf(call.e))
                    \cup DeprecatedMethods(ClassOf(call.e))

\* C4: every deprecated operation, with any arguments, raises
\* NotImplementedError and invokes the broker zero times.
C4_DeprecatedRaisesNotImplemented ==
    IsDeprecatedCall(last) => last.err = "NotImplementedError" /\ last.calls = 0

\* What holds of the deprecated operations whatever the arguments: they
\* raise, invoke no broker call and change no variable but the record.
C4_DeprecatedRaises ==
    IsDeprecatedCall(last) => last.err # None /\ last.calls = 0

MissingOrEmptyId(cls, config) ==
    IdKey(cls) \notin DOMAIN config \/ config[IdKey(cls)] = ""

\* C5: a constructor given a config whose identifier is missing or empty
\* raises (KeyError for a missing zoneId / dhwId, AssertionError for an
\* empty one) and the slot stays without an object; every object has a
\* non-empty _id equal to the identifier in its config.
C5_ConstructionNeedsId ==
    /\ (last.op = "__init__" /\ MissingOrEmptyId(ClassOf(last.e), last.arg)) =>
        /\ last.err \in {"KeyError", "AssertionError"}
        /\ zones[last.e] = NoEntity
    /\ \A e \in Entities :
        zones[e] # NoEntity =>
            /\ IdKey(ClassOf(e)) \in DOMAIN zones[e]._config
            /\ zones[e]._id # ""
            /\ zones[e]._id = zones[e]._config[IdKey(ClassOf(e))]

\* The DHW constructor raised on an empty dhwId while the zone exists.
C5_Witness ==
    /\ last.op = "__init__"
    /\ last.e = "dhw"
    /\ last.err = "AssertionError"
    /\ zones["zone"] # NoEntity

\* C9: in every state, under every interleaving of refreshes and reads, an
\* object's cache is empty before the broker has returned a status for it
\* and afterwards is, in full, the status the broker returned to the
\* refresh that resumed last: one of the class's payloads, never a mixture.
C9_CacheIsOneWholePayload ==
    \A e \in Entities :
        zones[e] # NoEntity =>
            /\ zones[e]._status = delivered[e].status
            /\ ~delivered[e].any => zones[e]._status = EmptyDict
            /\ zones[e]._status \in StatusPayloads(ClassOf(e))

\* A refresh of the zone resumed with a one-field status while another
\* refresh of the same zone is suspended.
C9_Witness ==
    /\ zones["zone"] # NoEntity
    /\ DOMAIN zones["zone"]._status = {SZ_TEMPERATURE_STATUS}
    /\ brokerCalls = 3
    /\ \E task \in Suspended : task.op = "_refresh_status" /\ task.e = "zone"

UnserializableValues == UnserializableDicts \cup {JList(<<PyCycle>>)}
RejectedSchedules == InvalidTexts \cup UnserializableValues

C1_Raised ==
    /\ (last.op = "set_schedule" /\ last.arg \in RejectedSchedules) =>
        last.err = InvalidSchedule /\ last.calls = 0
    /\ \A task \in Suspended :
        task.op = "set_schedule" => task.arg \notin RejectedSchedules

C1_Step ==
    (ReturnsNow /\ last'.op = "set_schedule" /\ last'.arg \in RejectedSchedules) =>
        /\ brokerCalls' = brokerCalls
        /\ pending' = pending
        /\ zones' = zones

\* C1: set_schedule given a malformed text, or a dict or list that json
\* cannot encode (holding a set, or itself), raises InvalidSchedule in the
\* step of the call: no request is suspended on the broker for it and the
\* count of broker invocations does not move.
C1_InvalidScheduleNeverSent == [] C1_Raised /\ [][C1_Step]_vars

\* A dict holding itself was rejected after the broker had been invoked by
\* earlier calls.
C1_Witness ==
    /\ last.op = "set_schedule"
    /\ last.arg = JObj(<< <<DailySchedulesKey.s, PyCycle>> >>)
    /\ last.err = InvalidSchedule
    /\ brokerCalls = 2

ModePayload(task) == task.request.json

HotWaterOverride(task, state) ==
    LET json == ModePayload(task)
        until == task.arg
    IN  /\ task.request.method = "put"
        /\ json.State = state
        /\ json.Mode = "PermanentOverride" <=> until = NoneDt
        /\ json.Mode = "TemporaryOverride" <=> until # NoneDt
        /\ json.UntilTime = JNull <=> until = NoneDt
        /\ until # NoneDt => json.UntilTime = JStr(strftime(until))
        /\ ~(json.UntilTime = JNull /\ json.Mode = "TemporaryOverride")

ZoneOverride(task) ==
    LET json == ModePayload(task)
        temperature == task.arg[1]
        until == task.arg[2]
    IN  /\ task.request.method = "put"
        /\ json[SZ_HEAT_SETPOINT_VALUE] = temperature
        /\ json[SZ_SETPOINT_MODE] = SZ_PERMANENT_OVERRIDE <=> until = NoneDt
        /\ json[SZ_SETPOINT_MODE] = SZ_TEMPORARY_OVERRIDE <=> until # NoneDt
        /\ json[SZ_TIME_UNTIL] = JNull <=> until = NoneDt
        /\ until # NoneDt => json[SZ_TIME_UNTIL] = JStr(strftime(until))
        /\ ~(json[SZ_TIME_UNTIL] = JNull
                /\ json[SZ_SETPOINT_MODE] = SZ_TEMPORARY_OVERRIDE)

\* C6: the payload put by set_on, set_off and set_temperature has mode
\* PermanentOverride and a null until-field exactly when `until` is None,
\* mode TemporaryOverride and the formatted `until` exactly when it is
\* given, and carries State On / Off or the requested temperature.
C6_OverridePayloads ==
    \A task \in Suspended :
        /\ task.op = "set_on" => HotWaterOverride(task, "On")
        /\ task.op = "set_off" => HotWaterOverride(task, "Off")
        /\ task.op = "set_temperature" => ZoneOverride(task)

\* set_off with an `until` and set_temperature without one are suspended on
\* their puts; the until-field reads 2024-01-05T07:05:09Z.
C6_Witness ==
    /\ \E task \in Suspended :
        /\ task.op = "set_off"
        /\ task.arg = Datetime(2024, 1, 5, 7, 5, 9)
        /\ ModePayload(task).UntilTime =
            JStr(<<"2","0","2","4","-","0","1","-","0","5","T",
                   "0","7",":","0","5",":","0","9","Z">>)
    /\ \E task \in Suspended :
        /\ task.op = "set_temperature"
        /\ task.arg = <<215, NoneDt>>

ScheduleReturned(call) == call.op = "get_schedule" /\ call.err = None

Lookup(members, key) ==
    IF HasKey(members, key) THEN GetItem(members, key) ELSE JNull

\* The entries of a list; none when the value is not a list.
ItemsOf(value) == IF value.t = "list" THEN value.items ELSE << >>

DecodedDays(result) == ItemsOf(Lookup(result.members, capitalize(SZ_DAILY_SCHEDULES)))
RemoteDays(schedule) == ItemsOf(Lookup(schedule.members, SZ_DAILY_SCHEDULES))

\* C7: in a schedule get_schedule returns, the daily entry at position i
\* (from 0) has day-of-week i, whatever day the remote entry named; the
\* seven entries have the ordinals 0..6 in the order the remote listed them.
C7_OrdinalsByPosition ==
    ScheduleReturned(last) =>
        LET days == DecodedDays(last.ret) IN
        /\ Len(days) = DaysPerWeek
        /\ Len(days) = Len(RemoteDays(remote[last.e]))
        /\ \A i \in 1..Len(days) :
            /\ Lookup(days[i].members, capitalize(SZ_DAY_OF_WEEK)) = JNum(i - 1)
            /\ ~HasKey(days[i].members, SZ_DAY_OF_WEEK)

\* A schedule was returned whose remote form names Sunday first and Monday
\* last.
C7_Witness ==
    /\ ScheduleReturned(last)
    /\ Lookup(RemoteDays(remote[last.e])[1].members, SZ_DAY_OF_WEEK) = JStr(Sunday)
    /\ Lookup(RemoteDays(remote[last.e])[DaysPerWeek].members, SZ_DAY_OF_WEEK)
            = JStr(Monday)

\* The (time of day, value) pairs of a daily entry, under the names given.
Pairs(day, switchpoints, time, values) ==
    LET sps == ItemsOf(Lookup(day.members, switchpoints)) IN
    [j \in 1..Len(sps) |->
        << Lookup(sps[j].members, time),
           [k \in 1..Len(values) |-> Lookup(sps[j].members, values[k])],
           Len(sps[j].members) >>]

RemotePairs(schedule) ==
    [i \in 1..Len(RemoteDays(schedule)) |->
        << Pairs(RemoteDays(schedule)[i], SZ_SWITCHPOINTS, SZ_TIME_OF_DAY,
                 <<SZ_HEAT_SETPOINT, SZ_DHW_STATE>>),
           Len(RemoteDays(schedule)[i].members) >>]

DecodedPairs(result) ==
    [i \in 1..Len(DecodedDays(result)) |->
        << Pairs(DecodedDays(result)[i], capitalize(SZ_SWITCHPOINTS),
                 capitalize(SZ_TIME_OF_DAY),
                 <<SZ_HEAT_SETPOINT, capitalize(SZ_DHW_STATE)>>),
           Len(DecodedDays(result)[i].members) >>]

\* C8: the schedule get_schedule returns has as many daily entries as the
\* remote schedule, each with the same switchpoints in the same order, the
\* same time of day and the same setpoint or state in each, and no member
\* more or less; only member names and the day of week differ.
C8_DecodePreservesSwitchpoints ==
    ScheduleReturned(last) =>
        /\ DecodedPairs(last.ret) = RemotePairs(remote[last.e])
        /\ Len(last.ret.members) = Len(remote[last.e].members)

\* The DHW schedule was returned, its first day holding two switchpoints,
\* the second of them Off at 22:30:00.
C8_Witness ==
    /\ ScheduleReturned(last)
    /\ last.e = "dhw"
    /\ Len(DecodedPairs(last.ret)[1][1]) = 2
    /\ DecodedPairs(last.ret)[1][1][2][1] = JStr(Time2230)
    /\ DecodedPairs(last.ret)[1][1][2][2][2] = JStr(Off)
    /\ Len(DecodedPairs(last.ret)[DaysPerWeek][1]) = 1

C10_Step ==
    \A e \in Entities :
        zones[e] # NoEntity =>
            /\ zones'[e] # NoEntity
            /\ zones'[e]._config = zones[e]._config
            /\ zones'[e]._id = zones[e]._id
            /\ zones'[e]._type = zones[e]._type
            /\ zones'[e].cls = zones[e].cls
            /\ zones'[e]._status # zones[e]._status =>
                /\ \E task \in Suspended :
                    /\ task.op = "_refresh_status"
                    /\ task.e = e
                    /\ pending' = Resume(task)
                /\ delivered'[e].any
                /\ zones'[e]._status = delivered'[e].status

\* C10: an object's cache changes only in the step in which the broker
\* returns a status to a refresh of that object, and becomes that status;
\* no schedule call, mode command, property read, deprecated call or call
\* on the other object changes it, and no step changes an object's config,
\* id, type or class once it is constructed.
C10_OnlyRefreshWritesCache == [][C10_Step]_vars

\* The zone holds a status while its set_temperature and the DHW's
\* get_schedule are suspended, the DHW's cache still empty.
C10_Witness ==
    /\ zones["zone"] # NoEntity
    /\ zones["dhw"] # NoEntity
    /\ zones["zone"]._status # EmptyDict
    /\ zones["dhw"]._status = EmptyDict
    /\ \E task \in Suspended : task.op = "set_temperature" /\ task.e = "zone"
    /\ \E task \in Suspended : task.op = "get_schedule" /\ task.e = "dhw"

=============================================================================
